---- MODULE Spec2Model ----
(***************************************************************************)
(* The Ensemble class of Modules/Ensemble.py: the fields of one Ensemble   *)
(* object, the dataset directory it loads from, and one action per method. *)
(*                                                                         *)
(* numpy float64 values are extended rationals <<n, d>> in lowest terms:   *)
(* d > 0 is the finite value n/d, <<1,0>> is +inf, <<-1,0>> is -inf and    *)
(* <<0,0>> is NaN.  Arithmetic follows IEEE-754 on the special values      *)
(* (numpy warns and continues on a division by zero); rounding is not      *)
(* modelled.                                                               *)
(*                                                                         *)
(* A Python list is [kind |-> "list", v |-> <<...>>]; a numpy array of     *)
(* leading dimension n is [kind |-> "array", v |-> <<...>>] when it is     *)
(* one-dimensional and [kind |-> "array3", v |-> <<...>>] when it has the  *)
(* shape (n, N_atoms, 3).  Every (N_atoms, 3) slice the code writes is     *)
(* written from one scalar or from one adapter/file value, so v[i] is the  *)
(* value that fills slice i.                                               *)
(***************************************************************************)
EXTENDS Integers, Sequences, FiniteSets, TLC

\* Largest ensemble size passed to load, and largest number of
\* per-configuration files in the dataset directory.
MaxN == 3

(***************************************************************************)
(* float64                                                                 *)
(***************************************************************************)
NaN == <<0, 0>>
PInf == <<1, 0>>
NInf == <<-1, 0>>

Abs(x) == IF x < 0 THEN -x ELSE x
Sign(x) == IF x < 0 THEN -1 ELSE IF x > 0 THEN 1 ELSE 0

RECURSIVE GCD(_, _)
GCD(a, b) == IF b = 0 THEN a ELSE GCD(b, a % b)

Norm(n, d) ==
    IF d = 0 THEN <<Sign(n), 0>>
    ELSE LET s == Sign(d)
             g == GCD(Abs(n), Abs(d))
         IN  <<(s * n) \div g, (s * d) \div g>>

F(k) == <<k, 1>>
IsNaN(a) == a = NaN
IsInf(a) == a[2] = 0 /\ a[1] # 0
IsFinite(a) == a[2] > 0

FNeg(a) == <<-a[1], a[2]>>

FAdd(a, b) ==
    IF IsNaN(a) \/ IsNaN(b) THEN NaN
    ELSE IF IsInf(a) THEN (IF IsInf(b) /\ b # a THEN NaN ELSE a)
    ELSE IF IsInf(b) THEN b
    ELSE Norm(a[1] * b[2] + b[1] * a[2], a[2] * b[2])

FSub(a, b) == FAdd(a, FNeg(b))

FMul(a, b) ==
    IF IsNaN(a) \/ IsNaN(b) THEN NaN
    ELSE IF IsInf(a) \/ IsInf(b)
         THEN (IF a[1] = 0 \/ b[1] = 0 THEN NaN ELSE <<Sign(a[1]) * Sign(b[1]), 0>>)
    ELSE Norm(a[1] * b[1], a[2] * b[2])

\* x / 0.0 is +-inf, 0.0 / 0.0 and inf / inf are NaN, x / inf is 0.
FDiv(a, b) ==
    IF IsNaN(a) \/ IsNaN(b) THEN NaN
    ELSE IF IsInf(a) THEN (IF IsInf(b) THEN NaN
                           ELSE <<a[1] * (IF b[1] < 0 THEN -1 ELSE 1), 0>>)
    ELSE IF IsInf(b) THEN F(0)
    ELSE IF b[1] = 0 THEN <<Sign(a[1]), 0>>
    ELSE Norm(a[1] * b[2], a[2] * b[1])

\* The == of float64: NaN equals nothing, itself included.
FEq(a, b) == ~IsNaN(a) /\ ~IsNaN(b) /\ a = b

\* The < of float64 (false when either side is NaN).
FLt(a, b) ==
    /\ ~IsNaN(a) /\ ~IsNaN(b)
    /\ a # b
    /\ IF IsInf(a) THEN a = NInf
       ELSE IF IsInf(b) THEN b = PInf
       ELSE a[1] * b[2] < b[1] * a[2]

FLe(a, b) == FLt(a, b) \/ FEq(a, b)

RECURSIVE FSum(_)
FSum(s) == IF s = <<>> THEN F(0) ELSE FAdd(Head(s), FSum(Tail(s)))

(***************************************************************************)
(* Python lists and numpy arrays                                           *)
(***************************************************************************)
List(s) == [kind |-> "list", v |-> s]
Array(s) == [kind |-> "array", v |-> s]
Array3(s) == [kind |-> "array3", v |-> s]

Zeros(n) == [i \in 1..n |-> F(0)]
Ones(n) == [i \in 1..n |-> F(1)]

\* np.zeros((n, N_atoms, 3)) (np.zeros((n, 3, 3)) for the stresses) and
\* np.ones(n)
np_zeros3(n) == Array3(Zeros(n))
np_ones(n) == Array(Ones(n))

\* Two one-dimensional operands of lengths a and b broadcast together.
Broadcastable(a, b) == a = b \/ a = 1 \/ b = 1
BroadcastLen(a, b) == IF a = 1 THEN b ELSE a
\* Element k of a one-dimensional operand s inside a broadcast.
Bc(s, k) == IF Len(s) = 1 THEN s[1] ELSE s[k]

(***************************************************************************)
(* The harmonic model (cellconstructor.Phonons.Phonons) as the class uses  *)
(* it.  id tells two models apart, N_atoms is structure.N_atoms and w are  *)
(* the frequencies DyagDinQ(0) returns after the first three.              *)
(***************************************************************************)
Models ==
    { [id |-> 0, N_atoms |-> 1, w |-> <<>>],
      [id |-> 1, N_atoms |-> 1, w |-> <<>>],
      [id |-> 2, N_atoms |-> 2, w |-> <<1, 2, 3>>],
      [id |-> 3, N_atoms |-> 2, w |-> <<1, 2, 2>>] }

Temps == {0, 300}

\* What the adapter does in one update_weights call: "ok", or at
\* configuration `at` it raises in GetRatioProbability ("raise_ratio"),
\* raises in get_energy_forces ("raise_predict"), or returns a NaN or an
\* infinite probability ratio.
AdapterKinds == {"raise_ratio", "raise_predict", "nan", "inf"}
AdapterOK == [at |-> 0, kind |-> "ok"]
Adapters(n) == {AdapterOK} \cup [at : 1..n, kind : AdapterKinds]

\* new_dynamical_matrix.GetRatioProbability(structure_i, newT, T0, dyn_0):
\* 1 for the sampling model at the sampling temperature, some other
\* non-negative value otherwise.
GetRatioProbability(dyn, T, dyn0, t0, i, adapter) ==
    IF adapter.at = i /\ adapter.kind = "nan" THEN NaN
    ELSE IF adapter.at = i /\ adapter.kind = "inf" THEN PInf
    ELSE IF dyn = dyn0 /\ T = t0 THEN F(1)
    ELSE Norm(((dyn.id + i) % 3) + (IF T = t0 THEN 0 ELSE 1), 2)

\* The energy of dyn.get_energy_forces(structure_i).
ModelEnergy(dyn, i) == F((dyn.id + i) % 2)
\* The forces of dyn.get_energy_forces(structure_i).
ModelForces(dyn, i) == F((dyn.id + 2 * i) % 3)

(***************************************************************************)
(* State                                                                   *)
(***************************************************************************)
VARIABLES
    N, structures, energies, forces, stresses,
    sscha_energies, sscha_forces,
    dyn_0, T0, rho, current_dyn, current_T, q,
    dataset,    \* the files under data_dir
    last        \* the last call made on the object and how it ended

vars == <<N, structures, energies, forces, stresses, sscha_energies,
          sscha_forces, dyn_0, T0, rho, current_dyn, current_T, q,
          dataset, last>>

NoArgs == [n |-> 0, dyn |-> 0, T |-> 0, adapter |-> AdapterOK, flag |-> FALSE]

Call(op, args, exc, ret) == [op |-> op, args |-> args, exc |-> exc, ret |-> ret]

\* Ensemble.__init__(dyn0, T0)
Constructed(dyn0, t0) ==
    /\ N = 0
    /\ structures = List(<<>>)
    /\ energies = List(<<>>)
    /\ forces = List(<<>>)
    /\ stresses = List(<<>>)
    /\ sscha_energies = List(<<>>)
    /\ sscha_forces = List(<<>>)
    /\ dyn_0 = dyn0
    /\ T0 = t0
    /\ rho = List(<<>>)
    /\ current_dyn = dyn0
    /\ current_T = t0
    /\ q = List(<<>>)

\* The dataset directory: whether data_dir is a directory, for how many
\* configurations 1..nFiles the scf/forces/pressures files exist, and how
\* many values the energies file holds.
Datasets ==
    {[dirOK |-> FALSE, nFiles |-> 0, nE |-> 0]}
        \cup [dirOK : {TRUE}, nFiles : 0..MaxN, nE : 0..MaxN]

Init ==
    /\ \E d \in Models, t \in Temps : Constructed(d, t)
    /\ dataset \in Datasets
    /\ last = Call("init", NoArgs, "none", <<>>)

(***************************************************************************)
(* load(data_dir, population, N)                                           *)
(***************************************************************************)
\* A_TO_BOHR = 1.889725989
A_TO_BOHR == <<1889725989, 1000000000>>

\* The numbers in the dataset files of configuration i (1-based), and
\* line i of the energies file.
FileForces(i) == F(i % 2)
FileStress(i) == F(i)
FileEnergy(i) == F(i)

\* np.loadtxt of the energies file: one entry per line of the file.
LoadEnergies == Array([i \in 1..dataset.nE |-> FileEnergy(i)])

\* a[i, :, :] = x on a[...]: a Python list takes no tuple index, a numpy
\* array checks i against its first dimension.
SetSlice(a, i, x) ==
    IF a.kind = "list" THEN [exc |-> "TypeError", a |-> a]
    ELSE IF i > Len(a.v) THEN [exc |-> "IndexError", a |-> a]
    ELSE [exc |-> "none", a |-> [a EXCEPT !.v[i] = x]]

\* a[i] = x: out of range on a list or an array raises IndexError.
SetItem(a, i, x) ==
    IF i > Len(a.v) THEN [exc |-> "IndexError", a |-> a]
    ELSE [exc |-> "none", a |-> [a EXCEPT !.v[i] = x]]

\* The body of `for i in range(self.N)` of load, configurations i..n, on
\* st = the arrays written so far.  The structure read from the scf file
\* is a local; nothing is appended to self.structures.
RECURSIVE LoadLoop(_, _, _)
LoadLoop(i, n, st) ==
    IF i > n THEN st
    ELSE IF i > dataset.nFiles THEN [st EXCEPT !.exc = "IOError"]
    ELSE LET f == SetSlice(st.forces, i, FMul(FileForces(i), A_TO_BOHR))
             s == SetSlice(st.stresses, i, FileStress(i))
             e == SetItem(st.sscha_energies, i, ModelEnergy(dyn_0, i))
             sf == SetSlice(st.sscha_forces, i, ModelForces(dyn_0, i))
             s1 == [st EXCEPT !.forces = f.a, !.stresses = s.a,
                              !.sscha_energies = e.a]
         IN  IF sf.exc # "none" THEN [s1 EXCEPT !.exc = sf.exc]
             ELSE LoadLoop(i + 1, n, [s1 EXCEPT !.sscha_forces = sf.a])

Load(n) ==
    LET args == [NoArgs EXCEPT !.n = n] IN
    IF ~dataset.dirOK
    THEN /\ last' = Call("load", args, "IOError", <<>>)
         /\ UNCHANGED <<N, structures, energies, forces, stresses,
                        sscha_energies, sscha_forces, dyn_0, T0, rho,
                        current_dyn, current_T, q, dataset>>
    ELSE LET st0 == [forces |-> np_zeros3(n),
                     stresses |-> np_zeros3(n),
                     \* np.zeros(N) rebound at once to np.zeros((N, N_atoms, 3))
                     sscha_energies |-> np_zeros3(n),
                     sscha_forces |-> sscha_forces,
                     exc |-> "none"]
             st == LoadLoop(1, n, st0)
         IN  /\ N' = n
             /\ forces' = st.forces
             /\ stresses' = st.stresses
             /\ sscha_energies' = st.sscha_energies
             /\ sscha_forces' = st.sscha_forces
             /\ IF st.exc = "none"
                THEN energies' = LoadEnergies /\ rho' = np_ones(n)
                ELSE UNCHANGED <<energies, rho>>
             /\ last' = Call("load", args, st.exc, <<>>)
             /\ UNCHANGED <<structures, dyn_0, T0, current_dyn, current_T, q,
                            dataset>>

(***************************************************************************)
(* update_weights(new_dynamical_matrix, newT)                              *)
(***************************************************************************)
\* a[i] read on a list or array.
GetItemFails(a, i) == i > Len(a.v)

\* The body of `for i in range(self.N)` of update_weights, configurations
\* i..n, on st = [rho, sscha_energies, sscha_forces, exc].
RECURSIVE UpdateLoop(_, _, _, _, _, _)
UpdateLoop(i, n, dyn, T, adapter, st) ==
    IF i > n THEN st
    ELSE IF GetItemFails(structures, i) THEN [st EXCEPT !.exc = "IndexError"]
    ELSE IF adapter.at = i /\ adapter.kind = "raise_ratio"
         THEN [st EXCEPT !.exc = "AdapterError"]
    ELSE LET r == SetItem(st.rho, i,
                          GetRatioProbability(dyn, T, dyn_0, T0, i, adapter))
         IN
         IF r.exc # "none" THEN [st EXCEPT !.exc = r.exc]
         ELSE IF adapter.at = i /\ adapter.kind = "raise_predict"
              THEN [st EXCEPT !.rho = r.a, !.exc = "AdapterError"]
         ELSE LET e == SetItem(st.sscha_energies, i, ModelEnergy(dyn, i))
                  sf == SetSlice(st.sscha_forces, i, ModelForces(dyn, i))
                  s1 == [st EXCEPT !.rho = r.a, !.sscha_energies = e.a]
              IN  IF e.exc # "none" THEN [s1 EXCEPT !.exc = e.exc]
                  ELSE IF sf.exc # "none" THEN [s1 EXCEPT !.exc = sf.exc]
                  ELSE IF GetItemFails(q, i)
                       THEN [s1 EXCEPT !.sscha_forces = sf.a, !.exc = "IndexError"]
                  ELSE UpdateLoop(i + 1, n, dyn, T, adapter,
                                  [s1 EXCEPT !.sscha_forces = sf.a])

\* update_weights with `self.T0 = newT` written for `self.current_T = newT`.
UpdateWeightsWritesT0(dyn, T, adapter) ==
    LET st0 == [rho |-> rho, sscha_energies |-> sscha_energies,
                sscha_forces |-> sscha_forces, exc |-> "none"]
        st == UpdateLoop(1, N, dyn, T, adapter, st0)
    IN  /\ T0' = T
        /\ rho' = st.rho
        /\ sscha_energies' = st.sscha_energies
        /\ sscha_forces' = st.sscha_forces
        /\ current_dyn' = IF st.exc = "none" THEN dyn ELSE current_dyn
        /\ last' = Call("update_weights",
                        [NoArgs EXCEPT !.dyn = dyn.id, !.T = T, !.adapter = adapter],
                        st.exc, <<>>)
        /\ UNCHANGED <<N, structures, energies, forces, stresses, dyn_0,
                       current_T, q, dataset>>

UpdateWeights(dyn, T, adapter) ==
    LET st0 == [rho |-> rho, sscha_energies |-> sscha_energies,
                sscha_forces |-> sscha_forces, exc |-> "none"]
        st == UpdateLoop(1, N, dyn, T, adapter, st0)
    IN  /\ current_T' = T
        /\ rho' = st.rho
        /\ sscha_energies' = st.sscha_energies
        /\ sscha_forces' = st.sscha_forces
        /\ current_dyn' = IF st.exc = "none" THEN dyn ELSE current_dyn
        /\ last' = Call("update_weights",
                        [NoArgs EXCEPT !.dyn = dyn.id, !.T = T, !.adapter = adapter],
                        st.exc, <<>>)
        /\ UNCHANGED <<N, structures, energies, forces, stresses, dyn_0, T0,
                       q, dataset>>

(***************************************************************************)
(* The estimators                                                          *)
(***************************************************************************)
Squares(s) == [i \in 1..Len(s) |-> FMul(s[i], s[i])]

\* self.N * np.sum(self.rho) / float(np.sum(self.rho**2)); a list has no **.
EffectiveSampleSize(n, r) ==
    FDiv(FMul(F(n), FSum(r)), FSum(Squares(r)))

GetEffectiveSampleSize ==
    /\ last' = IF rho.kind = "list"
               THEN Call("get_effective_sample_size", NoArgs, "TypeError", <<>>)
               ELSE Call("get_effective_sample_size", NoArgs, "none",
                         <<EffectiveSampleSize(N, rho.v)>>)
    /\ UNCHANGED <<N, structures, energies, forces, stresses, sscha_energies,
                   sscha_forces, dyn_0, T0, rho, current_dyn, current_T, q,
                   dataset>>

\* np.sum(a * b) of two one-dimensional operands.
SumProduct(a, b) ==
    FSum([k \in 1..BroadcastLen(Len(a), Len(b)) |-> FMul(Bc(a, k), Bc(b, k))])

\* np.sum(r * (e - s)) where s has the shape (Len(s), nat, 3): e and r are
\* aligned with the LAST axis of s, and every element of slice i of s is
\* s[i].
SumProduct3(r, e, s, nat) ==
    FMul(F(nat),
         FSum([i \in 1..Len(s) |->
               FSum([k \in 1..3 |-> FMul(Bc(r, k), FSub(Bc(e, k), s[i]))])]))

\* A one-dimensional operand broadcasts against the last axis (length 3).
FitsLastAxis(s) == Len(s) = 3 \/ Len(s) = 1

\* get_average_energy(subtract_sscha): the outcome as <<exception, value>>.
AverageEnergy(sub) ==
    IF ~sub
    THEN IF rho.kind = "list" /\ energies.kind = "list"
         THEN <<"TypeError", <<>>>>
         ELSE IF ~Broadcastable(Len(rho.v), Len(energies.v))
         THEN <<"ValueError", <<>>>>
         ELSE <<"none", <<FDiv(SumProduct(rho.v, energies.v), F(N))>>>>
    ELSE IF energies.kind = "list" /\ sscha_energies.kind = "list"
         THEN <<"TypeError", <<>>>>
         ELSE IF sscha_energies.kind = "array3"
         THEN IF ~FitsLastAxis(energies.v) \/ ~FitsLastAxis(rho.v)
              THEN <<"ValueError", <<>>>>
              ELSE <<"none",
                     <<FDiv(SumProduct3(rho.v, energies.v, sscha_energies.v,
                                        dyn_0.N_atoms), F(N))>>>>
         ELSE LET n == BroadcastLen(Len(energies.v), Len(sscha_energies.v))
                  d == [k \in 1..n |->
                        FSub(Bc(energies.v, k), Bc(sscha_energies.v, k))]
              IN  IF ~Broadcastable(Len(energies.v), Len(sscha_energies.v))
                     \/ ~Broadcastable(Len(rho.v), n)
                  THEN <<"ValueError", <<>>>>
                  ELSE <<"none", <<FDiv(SumProduct(rho.v, d), F(N))>>>>

GetAverageEnergy(sub) ==
    /\ last' = LET r == AverageEnergy(sub)
               IN  Call("get_average_energy", [NoArgs EXCEPT !.flag = sub],
                        r[1], r[2])
    /\ UNCHANGED <<N, structures, energies, forces, stresses, sscha_energies,
                   sscha_forces, dyn_0, T0, rho, current_dyn, current_T, q,
                   dataset>>

\* get_average_forces: np.tile(rho, (N_atoms, 3, 1)) has the shape
\* (N_atoms, 3, len(rho)) and meets forces - sscha_forces of the shape
\* (N, N_atoms, 3).  The value of the sum is not modelled.
AverageForcesExc ==
    IF forces.kind = "list" /\ sscha_forces.kind = "list" THEN "TypeError"
    ELSE IF forces.kind = "list" \/ sscha_forces.kind = "list" THEN "ValueError"
    ELSE IF ~Broadcastable(Len(forces.v), Len(sscha_forces.v)) THEN "ValueError"
    ELSE LET n == BroadcastLen(Len(forces.v), Len(sscha_forces.v))
             nat == dyn_0.N_atoms
         IN  IF /\ FitsLastAxis(rho.v)
                /\ (nat = 3 \/ nat = 1)
                /\ Broadcastable(nat, n)
             THEN "none" ELSE "ValueError"

GetAverageForces ==
    /\ last' = Call("get_average_forces", NoArgs, AverageForcesExc, <<>>)
    /\ UNCHANGED <<N, structures, energies, forces, stresses, sscha_energies,
                   sscha_forces, dyn_0, T0, rho, current_dyn, current_T, q,
                   dataset>>

(***************************************************************************)
(* get_free_energy_gradient_respect_to_dyn                                 *)
(*                                                                         *)
(* The mode indices mu, nu are modelled as in the code.  The Cartesian     *)
(* indices a, b, c, d are not: one entry [a, b] of the returned matrix is  *)
(* followed, and the factors indexed by them (pols, _m_sqrtinv, sqrt(_m_), *)
(* u_disp, delta_f, da_dw / (2 w a_mu) in either temperature branch) are   *)
(* finite numbers of the adapter, taken as 1 and -1.                       *)
(***************************************************************************)
\* np.eye(n_modes)[mu][nu]
Eye(mu, nu) == IF mu = nu THEN 1 ELSE 0

\* _w_ = np.tile(w, (n_modes, 1)) has _w_[mu][nu] = w[nu];
\* one_over_omegamunu = 1 / (_w_**2 - _w_.transpose()**2), then
\* one_over_omegamunu *= 1 - np.eye(n_modes).
one_over_omegamunu(w, mu, nu) ==
    FMul(FDiv(F(1), FSub(F(w[nu] * w[nu]), F(w[mu] * w[mu]))),
         F(1 - Eye(mu, nu)))

\* One entry of d_lna_d_dyn for mode mu ("i, ai, bi, ci, a, b, c->abic").
d_lna_d_dyn(mu) == F(-1)

\* One entry of d_pol_d_dyn for mode j ("ai,bj,ci,ji,a,b,c->abjc"): the sum
\* over every mode i, i = j included, of finite factors times
\* one_over_omegamunu[j][i].
d_pol_d_dyn(w, j) ==
    FSum([i \in 1..Len(w) |-> FMul(F(1), one_over_omegamunu(w, j, i))])

pre_sum(w, mu) == FAdd(d_lna_d_dyn(mu), d_pol_d_dyn(w, mu))

\* - np.einsum("abc, c", gamma, q) for one configuration, with
\* gamma = np.einsum("abcd, d", pre_sum, delta_f).
Contribution(w) ==
    FNeg(FSum([mu \in 1..Len(w) |-> FMul(FMul(pre_sum(w, mu), F(1)), F(1))]))

\* What the loop over the configurations reads of configuration i, r
\* being self.rho.
GradientReadExc(i, r) ==
    IF GetItemFails(structures, i) THEN "IndexError"
    ELSE IF forces.kind = "list" \/ sscha_forces.kind = "list" THEN "TypeError"
    ELSE IF i > Len(forces.v) \/ i > Len(sscha_forces.v) THEN "IndexError"
    ELSE IF GetItemFails(r, i) THEN "IndexError"
    ELSE "none"

RECURSIVE GradientLoop(_, _, _, _)
GradientLoop(i, n, r, st) ==
    IF i > n THEN st
    ELSE IF GradientReadExc(i, r) # "none"
         THEN [st EXCEPT !.exc = GradientReadExc(i, r)]
    ELSE GradientLoop(i + 1, n, r,
            [st EXCEPT !.d_F_d_dyn =
                FAdd(@, FMul(Contribution(current_dyn.w), r.v[i]))])

\* d_F_d_dyn /= np.sum(self.rho)
Normalization(acc, r) == FDiv(acc, FSum(r))

\* The gradient of an ensemble whose self.rho is r: the outcome as
\* <<exception, value>>.
GradientWithWeights(r) ==
    LET st == GradientLoop(1, N, r, [d_F_d_dyn |-> F(0), exc |-> "none"])
    IN  IF st.exc # "none" THEN <<st.exc, <<>>>>
        ELSE <<"none", <<Normalization(st.d_F_d_dyn, r.v)>>>>

FreeEnergyGradient == GradientWithWeights(rho)

GetFreeEnergyGradient ==
    /\ last' = LET r == FreeEnergyGradient
               IN  Call("get_free_energy_gradient_respect_to_dyn", NoArgs,
                        r[1], r[2])
    /\ UNCHANGED <<N, structures, energies, forces, stresses, sscha_energies,
                   sscha_forces, dyn_0, T0, rho, current_dyn, current_T, q,
                   dataset>>

(***************************************************************************)
(* Specifications                                                          *)
(***************************************************************************)
\* The models a caller passes for an ensemble of dyn_0: same atoms.
Candidates == {m \in Models : m.N_atoms = dyn_0.N_atoms}

Next ==
    \/ \E n \in 0..MaxN : Load(n)
    \/ \E dyn \in Candidates, T \in Temps, adapter \in Adapters(N) :
           UpdateWeights(dyn, T, adapter)
    \/ GetEffectiveSampleSize
    \/ \E sub \in BOOLEAN : GetAverageEnergy(sub)
    \/ GetAverageForces
    \/ GetFreeEnergyGradient

\* An Ensemble from its construction on.
Spec == Init /\ [][Next]_vars

\* The weights of the ensembles the estimators are applied to.
Weights == {F(0), <<1, 2>>, F(1), F(2)}

\* An ensemble of n configurations sampled at T0 = 300 with the arrays in
\* the shapes load allocates (lines 106-134), one structure per
\* configuration and any weighting: the input of the estimators and of the
\* gradient.
InitPopulated ==
    \E d \in Models, t \in {300}, n \in 1..MaxN :
        /\ N = n
        /\ structures = List([i \in 1..n |-> i])
        /\ energies = Array([i \in 1..n |-> FileEnergy(i)])
        /\ forces = Array3([i \in 1..n |-> FMul(FileForces(i), A_TO_BOHR)])
        /\ stresses = Array3([i \in 1..n |-> FileStress(i)])
        /\ sscha_energies = Array3([i \in 1..n |-> ModelEnergy(d, i)])
        /\ sscha_forces = Array3([i \in 1..n |-> ModelForces(d, i)])
        /\ dyn_0 = d
        /\ T0 = t
        /\ rho \in {Array(r) : r \in [1..n -> Weights]}
        /\ current_dyn = d
        /\ current_T = t
        /\ q = List(<<>>)
        /\ dataset = [dirOK |-> TRUE, nFiles |-> n, nE |-> n]
        /\ last = Call("init", NoArgs, "none", <<>>)

SpecPopulated == InitPopulated /\ [][Next]_vars

(***************************************************************************)
(* Properties                                                              *)
(***************************************************************************)
\* The dataset holds what load(data_dir, population, n) needs.
WellFormed(n) == dataset.dirOK /\ dataset.nFiles >= n /\ dataset.nE = n

Reweighted == last.op = "update_weights"
ReweightStep == last'.op = "update_weights"

\* The fields a reweighting is to leave alone when it fails.
ReweightStateKept ==
    /\ rho' = rho
    /\ sscha_energies' = sscha_energies
    /\ sscha_forces' = sscha_forces
    /\ current_dyn' = current_dyn
    /\ current_T' = current_T

\* C1: on an ensemble loaded from a well-formed dataset, an update_weights
\* call made with an adapter that raises at some configuration i in 1..N fails, and every weight, every model energy and
\* model force, current_dyn and current_T are afterwards what they were
\* before the call.
C1_ReweightAllOrNothing ==
    [][(/\ ReweightStep
        /\ WellFormed(N)
        /\ last'.args.adapter.kind \in {"raise_ratio", "raise_predict"}
        /\ last'.args.adapter.at \in 1..N)
       => (last'.exc # "none" /\ ReweightStateKept)]_vars

\* C2: on an ensemble loaded with N >= 1 configurations from a well-formed
\* dataset, update_weights(dyn_0, T0) completes, leaves every weight 1, and
\* the effective sample size is then exactly N.
C2_IdentityReweighting ==
    (/\ Reweighted
     /\ N >= 1
     /\ WellFormed(N)
     /\ last.args.dyn = dyn_0.id
     /\ last.args.T = T0
     /\ last.args.adapter = AdapterOK)
    => (/\ last.exc = "none"
        /\ rho = np_ones(N)
        /\ FEq(EffectiveSampleSize(N, rho.v), F(N)))

\* A weight vector of length N, no weight negative, not all of them zero.
ValidWeights ==
    /\ rho.kind = "array"
    /\ Len(rho.v) = N
    /\ \A i \in 1..N : FLe(F(0), rho.v[i])
    /\ \E i \in 1..N : FLt(F(0), rho.v[i])

AllWeightsEqual == \A i, j \in 1..Len(rho.v) : rho.v[i] = rho.v[j]

C4_LoadedArraysHaveN ==
    (last.op = "load" /\ last.exc = "none")
    => (/\ Len(structures.v) = N
        /\ Len(energies.v) = N
        /\ Len(forces.v) = N
        /\ Len(stresses.v) = N
        /\ Len(sscha_energies.v) = N
        /\ Len(sscha_forces.v) = N
        /\ \A i \in 1..N : /\ sscha_energies.v[i] = ModelEnergy(dyn_0, i)
                           /\ sscha_forces.v[i] = ModelForces(dyn_0, i)
        /\ rho = np_ones(N))

\* No load has got past its directory check: the fields are the lists of
\* the constructor.
NeverLoaded ==
    /\ N = 0
    /\ forces.kind = "list"
    /\ rho.kind = "list"
    /\ energies.kind = "list"

EstimatorOps ==
    {"get_effective_sample_size", "get_average_energy", "get_average_forces",
     "get_free_energy_gradient_respect_to_dyn"}

\* C5: on an ensemble that was constructed and never loaded, every
\* estimator call and the gradient call end in an error.
C5_UnloadedCallsFail ==
    (NeverLoaded /\ last.op \in EstimatorOps) => last.exc # "none"

\* C6: on an ensemble loaded from a well-formed dataset, an update_weights call in which the adapter returns NaN or Inf for a
\* configuration i in 1..N ends in an error and leaves the weights, the model
\* predictions, current_dyn and current_T as they were, and no weight of the
\* ensemble is NaN or Inf afterwards.
C6_NonFiniteRatioAborts ==
    [][(/\ ReweightStep
        /\ WellFormed(N)
        /\ last'.args.adapter.kind \in {"nan", "inf"}
        /\ last'.args.adapter.at \in 1..N)
       => (/\ last'.exc # "none"
           /\ ReweightStateKept
           /\ \A i \in 1..Len(rho'.v) : IsFinite(rho'.v[i]))]_vars

\* C7: an update_weights call, whether it completes or fails, leaves
\* structures, energies, forces, stresses, N, dyn_0 and T0 as they were.
C7_ReweightKeepsGroundTruth ==
    [][ReweightStep =>
         /\ structures' = structures
         /\ energies' = energies
         /\ forces' = forces
         /\ stresses' = stresses
         /\ N' = N
         /\ dyn_0' = dyn_0
         /\ T0' = T0]_vars

\* C7 happens: update_weights has run on an ensemble whose ground-truth
\* arrays load has allocated and filled in part, and has replaced current_T.
C7_Witness ==
    /\ Reweighted
    /\ N >= 1
    /\ forces.kind = "array3"
    /\ \E i \in 1..N : forces.v[i] # F(0)
    /\ current_T # T0

\* An ensemble whose per-configuration arrays all have N >= 1 entries and
\* finite weights.
Populated ==
    /\ N >= 1
    /\ rho.kind = "array" /\ Len(rho.v) = N
    /\ energies.kind = "array" /\ Len(energies.v) = N
    /\ sscha_energies.kind = "array3" /\ Len(sscha_energies.v) = N
    /\ forces.kind = "array3" /\ Len(forces.v) = N
    /\ sscha_forces.kind = "array3" /\ Len(sscha_forces.v) = N
    /\ Len(structures.v) = N
    /\ \A i \in 1..N : IsFinite(rho.v[i])

Scalars == {2, 3}
Scaled(r, c) == [r EXCEPT !.v = [i \in 1..Len(r.v) |-> FMul(F(c), r.v[i])]]

PairwiseDistinct(w) == \A i, j \in 1..Len(w) : i # j => w[i] # w[j]

\* C10: when the gradient is computed for a model whose retained frequencies
\* are pairwise distinct, every diagonal entry of one_over_omegamunu is zero
\* after the masking.
C10_MaskedDiagonalIsZero ==
    (/\ last.op = "get_free_energy_gradient_respect_to_dyn"
     /\ PairwiseDistinct(current_dyn.w))
    => \A mu \in 1..Len(current_dyn.w) :
           FEq(one_over_omegamunu(current_dyn.w, mu, mu), F(0))

====
